---- MODULE Spec2Model ----
(***************************************************************************)
(* Model of validate-zabbix-template.py: the ZabbixTemplateValidator       *)
(* (one validation pass over a parsed document, three finding buckets)     *)
(* and the driver main() (file resolution, sequential loop, exit code).    *)
(*                                                                         *)
(* A text is a sequence of Unicode code points.  An XML element is a       *)
(* record [present, hasText, text]: find() returning None is               *)
(* present = FALSE, an element whose .text is None is hasText = FALSE.     *)
(* A Python exception that nothing catches is the field exc of the         *)
(* accumulator: once set, no later statement of the validator runs.        *)
(***************************************************************************)
EXTENDS Integers, Sequences, FiniteSets, TLC

(***************************************************************************)
(* Elements and texts                                                      *)
(***************************************************************************)
NoElem == [present |-> FALSE, hasText |-> FALSE, text |-> <<>>]

EmptyElem == [present |-> TRUE, hasText |-> FALSE, text |-> <<>>]

Elem(t) == [present |-> TRUE, hasText |-> TRUE, text |-> t]

\* the value of element.text: a str, or None (hasText = FALSE)
TextOf(e) == [hasText |-> e.hasText, text |-> e.text]

NoColl == [present |-> FALSE, list |-> <<>>]

Coll(l) == [present |-> TRUE, list |-> l]

\* ord(c) of a line feed or of a printable ASCII character: upper holds
\* U+0020..U+005F and lower holds U+0061..U+007E, in code point order
Ord(c) ==
  LET upper ==
        <<" ", "!", "\"", "#", "$", "%", "&", "'", "(", ")", "*", "+", ",", "-", ".", "/",
          "0", "1", "2", "3", "4", "5", "6", "7", "8", "9", ":", ";", "<", "=", ">", "?",
          "@", "A", "B", "C", "D", "E", "F", "G", "H", "I", "J", "K", "L", "M", "N", "O",
          "P", "Q", "R", "S", "T", "U", "V", "W", "X", "Y", "Z", "[", "\\", "]", "^", "_">>
      lower ==
        <<"a", "b", "c", "d", "e", "f", "g", "h", "i", "j", "k", "l", "m", "n", "o",
          "p", "q", "r", "s", "t", "u", "v", "w", "x", "y", "z", "{", "|", "}", "~">>
  IN IF c = "\n" THEN 10
     ELSE IF \E i \in 1..Len(upper) : upper[i] = c
     THEN 31 + (CHOOSE i \in 1..Len(upper) : upper[i] = c)
     ELSE 96 + (CHOOSE i \in 1..Len(lower) : lower[i] = c)

\* the text spelled by a sequence of such characters
RECURSIVE Str(_)
Str(s) == IF s = <<>> THEN <<>> ELSE <<Ord(Head(s))>> \o Str(Tail(s))

\* the characters the code and the number syntax name
Space == Ord(" ")

LineFeed == Ord("\n")

Dot == Ord(".")

Underscore == Ord("_")

Colon == Ord(":")

Dollar == Ord("$")

LeftParen == Ord("(")

RightParen == Ord(")")

LeftBrace == Ord("{")

RightBrace == Ord("}")

Minus == Ord("-")

SignChars == {Ord("+"), Ord("-")}

ExponentChars == {Ord("e"), Ord("E")}

UpperLetters == Ord("A")..Ord("Z")

InfWords ==
  {Str(<<"i", "n", "f">>), Str(<<"i", "n", "f", "i", "n", "i", "t", "y">>)}

NanWord == Str(<<"n", "a", "n">>)

Contains(s, c) == \E i \in 1..Len(s) : s[i] = c

Count(s, c) == Cardinality({i \in 1..Len(s) : s[i] = c})

\* the characters a regex class [0-9] matches
AsciiDigits == Ord("0")..Ord("9")

\* the code points of the digit zero of every script that has decimal
\* digits (Unicode category Nd); its digits one to nine follow each
DecimalZeros ==
  {48, 1632, 1776, 1984, 2406, 2534, 2662, 2790, 2918, 3046, 3174, 3302,
   3430, 3558, 3664, 3792, 3872, 4160, 4240, 6112, 6160, 6470, 6608, 6784,
   6800, 6992, 7088, 7232, 7248, 42528, 43216, 43264, 43472, 43504, 43600,
   44016, 65296, 66720, 68912, 69734, 69872, 69942, 70096, 70384, 70736,
   70864, 71248, 71360, 71472, 71904, 72016, 72784, 73040, 73120, 92768,
   92864, 93008, 120782, 120792, 120802, 120812, 120822, 123200, 123632,
   125264, 130032}

\* the characters int() and float() read as a decimal digit
IsDecimal(c) == \E z \in DecimalZeros : c \in z..(z + 9)

DigitVal(c) == c - (CHOOSE z \in DecimalZeros : c \in z..(z + 9))

\* the value of a sequence of digits
RECURSIVE DigitsVal(_)
DigitsVal(d) ==
  IF d = <<>> THEN 0
  ELSE 10 * DigitsVal(SubSeq(d, 1, Len(d) - 1)) + DigitVal(d[Len(d)])

\* the characters int() and float() skip around a number: tab, line feed,
\* vertical tab, form feed, carriage return, space, and the blanks of
\* Unicode beyond ASCII (U+0085, U+00A0, U+1680, U+2000..U+200A, U+2028,
\* U+2029, U+202F, U+205F, U+3000); U+001C..U+001F are not skipped
Whitespace ==
  (9..13) \cup {32, 133, 160, 5760} \cup (8192..8202)
    \cup {8232, 8233, 8239, 8287, 12288}

\* s from its first character that is not whitespace
StripLeft(s) ==
  IF \A i \in 1..Len(s) : s[i] \in Whitespace THEN <<>>
  ELSE SubSeq(s, CHOOSE i \in 1..Len(s) :
                   /\ s[i] \notin Whitespace
                   /\ \A j \in 1..(i - 1) : s[j] \in Whitespace,
              Len(s))

\* s up to its last character that is not whitespace
StripRight(s) ==
  IF \A i \in 1..Len(s) : s[i] \in Whitespace THEN <<>>
  ELSE SubSeq(s, 1, CHOOSE i \in 1..Len(s) :
                      /\ s[i] \notin Whitespace
                      /\ \A j \in (i + 1)..Len(s) : s[j] \in Whitespace)

\* digit (["_"] digit)*: decimal digits, single underscores only between them
IsDigitPart(s) ==
  /\ s # <<>>
  /\ IsDecimal(s[1])
  /\ IsDecimal(s[Len(s)])
  /\ \A i \in 1..Len(s) : IsDecimal(s[i]) \/ s[i] = Underscore
  /\ \A i \in 1..(Len(s) - 1) : ~(s[i] = Underscore /\ s[i + 1] = Underscore)

\* the digits of a digit part, underscores left out
DigitsOf(s) == SelectSeq(s, IsDecimal)

\* the digits d from the first one that is not a zero
StripZeros(d) ==
  IF \A i \in 1..Len(d) : DigitVal(d[i]) = 0 THEN <<>>
  ELSE SubSeq(d, CHOOSE i \in 1..Len(d) :
                   /\ DigitVal(d[i]) # 0
                   /\ \A j \in 1..(i - 1) : DigitVal(d[j]) = 0,
              Len(d))

\* the digits of a digit part without leading zeros
Digits(s) == StripZeros(DigitsOf(s))

\* the value of a digit sequence without leading zeros; a value of more
\* than cap digits is represented by 10^cap, which is none of the numbers
\* the code compares with
RECURSIVE Pow10(_)
Pow10(n) == IF n = 0 THEN 1 ELSE 10 * Pow10(n - 1)

CappedVal(d, cap) == IF Len(d) > cap THEN Pow10(cap) ELSE DigitsVal(d)

Signed(neg, v) == IF neg THEN 0 - v ELSE v

\* sys.get_int_max_str_digits(): the longest digit string int() converts
int_max_str_digits == 4300

\* the text without the whitespace around it
Strip(s) == StripRight(StripLeft(s))

IsNeg(t) == t # <<>> /\ Head(t) = Minus

\* the text after its optional sign
Unsigned(t) == IF t # <<>> /\ Head(t) \in SignChars THEN Tail(t) ELSE t

\* the integer of a stripped text: a digit part of at most
\* int_max_str_digits digits (leading zeros counted, underscores not)
IntOfBody(neg, body) ==
  IF IsDigitPart(body) /\ Len(DigitsOf(body)) <= int_max_str_digits
  THEN [ok |-> TRUE, val |-> Signed(neg, CappedVal(Digits(body), 9))]
  ELSE [ok |-> FALSE, val |-> 0]

\* int(text): surrounding whitespace skipped, an optional sign, then a
\* digit part; anything else is a ValueError (ok = FALSE).
\* val is exact up to nine digits.
ParseInt(s) == IntOfBody(IsNeg(Strip(s)), Unsigned(Strip(s)))

\* the lower-case form of an ASCII letter
LowerOf(c) == IF c \in UpperLetters THEN c + 32 ELSE c

\* case-insensitive comparison with a lower-case ASCII word
IsWord(s, w) == Len(s) = Len(w) /\ \A i \in 1..Len(s) : LowerOf(s[i]) = w[i]

\* the position of the first character of s that is in cs, 0 if none is
FirstOf(s, cs) ==
  IF \A i \in 1..Len(s) : s[i] \notin cs THEN 0
  ELSE CHOOSE i \in 1..Len(s) :
         s[i] \in cs /\ \A j \in 1..(i - 1) : s[j] \notin cs

\* s before position p, all of s if p = 0
Before(s, p) == IF p = 0 THEN s ELSE SubSeq(s, 1, p - 1)

\* s after position p, nothing if p = 0
After(s, p) == IF p = 0 THEN <<>> ELSE SubSeq(s, p + 1, Len(s))

\* a mantissa: a digit part, or digit parts around a '.', one of which may
\* be missing
IsMantissa(hasDot, ip, fp) ==
  IF ~hasDot THEN IsDigitPart(ip)
  ELSE /\ ip = <<>> \/ IsDigitPart(ip)
       /\ fp = <<>> \/ IsDigitPart(fp)
       /\ ip # <<>> \/ fp # <<>>

\* an exponent: nothing, or after the 'e' an optional sign and a digit part
IsExponent(hasE, ex) == ~hasE \/ IsDigitPart(Unsigned(ex))

ExponentVal(hasE, ex) ==
  IF hasE THEN Signed(IsNeg(ex), CappedVal(Digits(Unsigned(ex)), 6)) ELSE 0

\* the finite float of a mantissa mant and the text ex after the 'e'
FloatOfParts(neg, mant, hasE, ex) ==
  IF /\ IsMantissa(FirstOf(mant, {Dot}) # 0,
                   Before(mant, FirstOf(mant, {Dot})),
                   After(mant, FirstOf(mant, {Dot})))
     /\ IsExponent(hasE, ex)
  THEN [ok |-> TRUE, kind |-> "finite", neg |-> neg,
        digits |-> Digits(mant),
        exp |-> ExponentVal(hasE, ex)
                - Len(DigitsOf(After(mant, FirstOf(mant, {Dot}))))]
  ELSE [ok |-> FALSE, kind |-> "", neg |-> FALSE, digits |-> <<>>, exp |-> 0]

\* the float of a stripped, unsigned text
FloatOfBody(neg, body) ==
  IF \E w \in InfWords : IsWord(body, w)
  THEN [ok |-> TRUE, kind |-> "inf", neg |-> neg, digits |-> <<>>, exp |-> 0]
  ELSE IF IsWord(body, NanWord)
  THEN [ok |-> TRUE, kind |-> "nan", neg |-> neg, digits |-> <<>>, exp |-> 0]
  ELSE FloatOfParts(neg,
                    Before(body, FirstOf(body, ExponentChars)),
                    FirstOf(body, ExponentChars) # 0,
                    After(body, FirstOf(body, ExponentChars)))

\* float(text): surrounding whitespace skipped, an optional sign, then inf,
\* infinity or nan in any case, or a mantissa with an optional exponent;
\* anything else is a ValueError (ok = FALSE).  A finite value is
\* 0.digits * 10^(Len(digits) + exp) with digits free of leading zeros; exp
\* is exact up to six digits of the exponent.
ParseFloat(s) == FloatOfBody(IsNeg(Strip(s)), Unsigned(Strip(s)))

\* the decimals of 1 - 2^-51: a decimal between 4 and 8 this close to an
\* integer t or closer is rounded to the double t
RoundsUpFrom ==
  <<9, 9, 9, 9, 9, 9, 9, 9, 9, 9, 9, 9, 9, 9, 9,
    5, 5, 5, 9, 1, 0, 7, 9, 0, 1, 4, 9, 9, 3, 7,
    3, 8, 3, 8, 3, 0, 5, 4, 7, 3, 3, 2, 7, 6, 3,
    6, 7, 1, 8, 7, 5>>

\* a < b for the decimal fractions 0.a and 0.b, a given as digits and b as
\* digit values
RECURSIVE FracLess(_, _)
FracLess(a, b) ==
  IF b = <<>> THEN FALSE
  ELSE IF a = <<>> THEN \E i \in 1..Len(b) : b[i] # 0
  ELSE IF DigitVal(Head(a)) < Head(b) THEN TRUE
  ELSE IF DigitVal(Head(a)) > Head(b) THEN FALSE
  ELSE FracLess(Tail(a), Tail(b))

\* f < t for a parsed float f and an integer t in 5..8, as doubles
FloatLess(f, t) ==
  IF f.kind = "nan" THEN FALSE
  ELSE IF f.kind = "inf" THEN f.neg
  ELSE IF f.neg \/ f.digits = <<>> THEN TRUE
  ELSE LET k  == Len(f.digits) + f.exp      \* digits before the point
           d1 == DigitVal(f.digits[1])
       IN IF k <= 0 THEN TRUE
          ELSE IF k >= 2 THEN FALSE
          ELSE IF d1 < t - 1 THEN TRUE
          ELSE IF d1 >= t THEN FALSE
          ELSE FracLess(Tail(f.digits), RoundsUpFrom)

\* version_text.split('.')[0]: the text before the first '.'
SplitDotFirst(s) == Before(s, FirstOf(s, {Dot}))

\* the characters [0-9a-f] matches under re.IGNORECASE
HexChars == AsciiDigits \cup (Ord("a")..Ord("f")) \cup (Ord("A")..Ord("F"))

\* a regex's trailing '$' also matches just before a final line feed
DollarEnd(s) ==
  IF s # <<>> /\ s[Len(s)] = LineFeed
  THEN {s, SubSeq(s, 1, Len(s) - 1)} ELSE {s}

\* 8-4-4-4-12 hexadecimal digits with dashes, or 32 without
_is_valid_uuid(s) ==
  \E u \in DollarEnd(s) :
    \/ /\ Len(u) = 36
       /\ \A i \in 1..36 :
            IF i \in {9, 14, 19, 24} THEN u[i] = Minus ELSE u[i] \in HexChars
    \/ /\ Len(u) = 32
       /\ \A i \in 1..32 : u[i] \in HexChars

\* the characters [A-Z0-9_] matches
MacroNameChars == AsciiDigits \cup {Underscore} \cup UpperLetters

\* re.match(r'^\{\$[A-Z0-9_]+\}$', name_text)
MacroNameMatches(s) ==
  \E u \in DollarEnd(s) :
    /\ Len(u) >= 4
    /\ u[1] = LeftBrace
    /\ u[2] = Dollar
    /\ u[Len(u)] = RightBrace
    /\ \A i \in 3..(Len(u) - 1) : u[i] \in MacroNameChars

\* re.search(r'\{[^}]+:[^}]+\.[^}]+\(\)\}', expression): a '{', then a ':'
\* and later a '.', each after at least one other character, then "()}"
\* after at least one more character, with no '}' before the closing one.
OldStyleMatches(s) ==
  \E i \in 1..Len(s) : \E j \in 1..Len(s) : \E k \in 1..Len(s) : \E m \in 1..Len(s) :
    /\ s[i] = LeftBrace
    /\ j >= i + 2 /\ s[j] = Colon
    /\ k >= j + 2 /\ s[k] = Dot
    /\ m >= k + 2 /\ m + 2 <= Len(s)
    /\ s[m] = LeftParen /\ s[m + 1] = RightParen /\ s[m + 2] = RightBrace
    /\ \A x \in (i + 1)..(m - 1) : s[x] # RightBrace

(***************************************************************************)
(* Findings and the accumulator (self.errors, self.warnings, self.info)    *)
(***************************************************************************)
\* a recorded message; tpl and idx say which template and which entry of
\* the sub-collection the append was executed for (0 when not applicable)
Finding(m, t, i) == [msg |-> m, tpl |-> t, idx |-> i]

NewAcc == [errors |-> <<>>, warnings |-> <<>>, info |-> <<>>, exc |-> ""]

Err(acc, m, t, i) == [acc EXCEPT !.errors = Append(@, Finding(m, t, i))]

Warn(acc, m, t, i) == [acc EXCEPT !.warnings = Append(@, Finding(m, t, i))]

Info(acc, m) == [acc EXCEPT !.info = Append(@, Finding(m, 0, 0))]

Raise(acc, e) == [acc EXCEPT !.exc = e]

(***************************************************************************)
(* Validator rules                                                         *)
(***************************************************************************)
RECURSIVE GroupsFrom(_, _, _, _)
GroupsFrom(acc, gs, t, i) ==
  IF i > Len(gs) THEN acc
  ELSE GroupsFrom(IF ~gs[i].name.present
                  THEN Err(acc, "Group missing name", t, i) ELSE acc,
                  gs, t, i + 1)

_validate_groups(acc, groups, t) == GroupsFrom(acc, groups.list, t, 1)

valid_numeric == {0, 1, 2, 3, 4, 15, 16}

valid_string ==
  {Str(<<"F", "L", "O", "A", "T">>), Str(<<"C", "H", "A", "R">>), Str(<<"L", "O", "G">>),
   Str(<<"U", "N", "S", "I", "G", "N", "E", "D">>), Str(<<"T", "E", "X", "T">>),
   Str(<<"B", "I", "N", "A", "R", "Y">>), Str(<<"S", "T", "R">>)}

\* lines 199-213: the key of one item; st = [acc, seen]
ItemKey(st, key, t, i) ==
  IF ~key.present
  THEN [st EXCEPT !.acc = Err(@, "Item missing key", t, i)]
  ELSE IF ~key.hasText
  THEN [st EXCEPT !.acc = Raise(@, "TypeError")]      \* ' ' in None
  ELSE LET a1 == IF Contains(key.text, Space)
                 THEN Warn(st.acc, "Item key contains spaces", t, i)
                 ELSE st.acc
           a2 == IF TextOf(key) \in st.seen
                 THEN Err(a1, "Duplicate item key", t, i)
                 ELSE a1
       IN [acc |-> a2, seen |-> st.seen \cup {TextOf(key)}]

\* lines 215-235: the value_type of one item
ItemValueType(acc, value_type, t, i) ==
  IF ~value_type.present
  THEN Err(acc, "Item missing value_type", t, i)
  ELSE IF ~value_type.hasText
  THEN Raise(acc, "TypeError")                        \* int(None)
  ELSE LET p == ParseInt(value_type.text)
       IN IF p.ok
          THEN IF p.val \notin valid_numeric
               THEN Warn(acc, "Unusual numeric value_type", t, i) ELSE acc
          ELSE IF value_type.text \notin valid_string
               THEN Warn(acc, "Unknown string value_type", t, i) ELSE acc

\* one iteration of the loop of _validate_items
ItemStep(st, item, t, i) ==
  LET a1 == IF ~item.name.present
            THEN Err(st.acc, "Item missing name", t, i) ELSE st.acc
      s2 == ItemKey([st EXCEPT !.acc = a1], item.key, t, i)
  IN IF s2.acc.exc # "" THEN s2
     ELSE [s2 EXCEPT !.acc = ItemValueType(@, item.value_type, t, i)]

RECURSIVE ItemsFrom(_, _, _, _)
ItemsFrom(st, items, t, i) ==
  IF i > Len(items) \/ st.acc.exc # "" THEN st
  ELSE ItemsFrom(ItemStep(st, items[i], t, i), items, t, i + 1)

_validate_items(acc, items, t) ==
  ItemsFrom([acc |-> acc, seen |-> {}], items, t, 1).acc

\* one iteration of the loop of _validate_discovery_rules
RuleStep(st, rule, t, i) ==
  LET a1 == IF ~rule.name.present
            THEN Err(st.acc, "Discovery rule missing name", t, i) ELSE st.acc
      a2 == IF ~rule.key.present
            THEN Err(a1, "Discovery rule missing key", t, i)
            ELSE IF TextOf(rule.key) \in st.seen
            THEN Err(a1, "Duplicate discovery rule key", t, i)
            ELSE a1
      sn == IF rule.key.present THEN st.seen \cup {TextOf(rule.key)} ELSE st.seen
      a3 == IF rule.item_prototypes.present /\ rule.item_prototypes.count = 0
            THEN Warn(a2, "Discovery rule has no item prototypes", t, i)
            ELSE a2
  IN [acc |-> a3, seen |-> sn]

RECURSIVE RulesFrom(_, _, _, _)
RulesFrom(st, rules, t, i) ==
  IF i > Len(rules) \/ st.acc.exc # "" THEN st
  ELSE RulesFrom(RuleStep(st, rules[i], t, i), rules, t, i + 1)

_validate_discovery_rules(acc, rules, t) ==
  RulesFrom([acc |-> acc, seen |-> {}], rules, t, 1).acc

\* expr is the value of expression.text (a str or None)
_validate_trigger_expression(acc, expr, t, i) ==
  IF ~expr.hasText \/ expr.text = <<>>
  THEN Err(acc, "Empty trigger expression", t, i)
  ELSE LET a1 == IF Count(expr.text, LeftParen) # Count(expr.text, RightParen)
                 THEN Err(acc, "Unmatched parentheses in trigger expression", t, i)
                 ELSE acc
           a2 == IF Count(expr.text, LeftBrace) # Count(expr.text, RightBrace)
                 THEN Err(a1, "Unmatched braces in trigger expression", t, i)
                 ELSE a1
       IN IF OldStyleMatches(expr.text)
          THEN Warn(a2, "Possible old-style trigger expression detected", t, i)
          ELSE a2

\* lines 279-291: the expression of one trigger; st = [acc, seen]
TriggerExpression(st, expression, t, i) ==
  IF ~expression.present
  THEN [st EXCEPT !.acc = Err(@, "Trigger missing expression", t, i)]
  ELSE LET expr == TextOf(expression)
       IN IF expr \in st.seen /\ ~expr.hasText
          THEN [st EXCEPT !.acc = Raise(@, "TypeError")]   \* None[:50]
          ELSE LET a1 == IF expr \in st.seen
                         THEN Warn(st.acc, "Duplicate trigger expression", t, i)
                         ELSE st.acc
               IN [acc  |-> _validate_trigger_expression(a1, expr, t, i),
                   seen |-> st.seen \cup {expr}]

valid_priority == 0..5

valid_priority_string ==
  {Str(<<"N", "O", "T", "_", "C", "L", "A", "S", "S", "I", "F", "I", "E", "D">>),
   Str(<<"I", "N", "F", "O">>), Str(<<"W", "A", "R", "N", "I", "N", "G">>),
   Str(<<"A", "V", "E", "R", "A", "G", "E">>), Str(<<"H", "I", "G", "H">>),
   Str(<<"D", "I", "S", "A", "S", "T", "E", "R">>)}

\* lines 293-314: the priority of one trigger
TriggerPriority(acc, priority, t, i) ==
  IF ~priority.present
  THEN Warn(acc, "Trigger missing priority", t, i)
  ELSE IF ~priority.hasText
  THEN Raise(acc, "TypeError")                        \* int(None)
  ELSE LET p == ParseInt(priority.text)
       IN IF p.ok
          THEN IF p.val \notin valid_priority
               THEN Warn(acc, "Invalid priority value", t, i) ELSE acc
          ELSE IF priority.text \notin valid_priority_string
               THEN Warn(acc, "Unknown string priority", t, i) ELSE acc

\* one iteration of the loop of _validate_triggers
TriggerStep(st, trigger, t, i) ==
  LET a1 == IF ~trigger.name.present
            THEN Err(st.acc, "Trigger missing name", t, i) ELSE st.acc
      s2 == TriggerExpression([st EXCEPT !.acc = a1], trigger.expression, t, i)
  IN IF s2.acc.exc # "" THEN s2
     ELSE [s2 EXCEPT !.acc = TriggerPriority(@, trigger.priority, t, i)]

RECURSIVE TriggersFrom(_, _, _, _)
TriggersFrom(st, triggers, t, i) ==
  IF i > Len(triggers) \/ st.acc.exc # "" THEN st
  ELSE TriggersFrom(TriggerStep(st, triggers[i], t, i), triggers, t, i + 1)

_validate_triggers(acc, triggers, t) ==
  TriggersFrom([acc |-> acc, seen |-> {}], triggers, t, 1).acc

\* one iteration of the loop of _validate_macros
MacroStep(st, macro, t, i) ==
  LET nm == macro.macro
      s1 == IF ~nm.present
            THEN [st EXCEPT !.acc = Err(@, "Macro missing name", t, i)]
            ELSE IF ~nm.hasText
            THEN [st EXCEPT !.acc = Raise(@, "TypeError")]  \* re.match(.., None)
            ELSE LET a1 == IF ~MacroNameMatches(nm.text)
                           THEN Warn(st.acc, "Macro name doesn't follow convention", t, i)
                           ELSE st.acc
                     a2 == IF TextOf(nm) \in st.seen
                           THEN Err(a1, "Duplicate macro", t, i) ELSE a1
                 IN [acc |-> a2, seen |-> st.seen \cup {TextOf(nm)}]
  IN IF s1.acc.exc # "" THEN s1
     ELSE IF ~macro.value.present
     THEN [s1 EXCEPT !.acc = Warn(@, "Macro has no value", t, i)]
     ELSE s1

RECURSIVE MacrosFrom(_, _, _, _)
MacrosFrom(st, macros, t, i) ==
  IF i > Len(macros) \/ st.acc.exc # "" THEN st
  ELSE MacrosFrom(MacroStep(st, macros[i], t, i), macros, t, i + 1)

_validate_macros(acc, macros, t) ==
  MacrosFrom([acc |-> acc, seen |-> {}], macros, t, 1).acc

\* lines 121-130: the uuid of a template
TemplateUuid(acc, uuid, t) ==
  IF ~uuid.present
  THEN Warn(acc, "Missing UUID", t, 0)
  ELSE IF ~uuid.hasText
  THEN Raise(acc, "TypeError")                        \* None[:8]
  ELSE IF ~_is_valid_uuid(uuid.text)
  THEN Err(acc, "Invalid UUID format", t, 0)
  ELSE acc

\* lines 132-139: the groups of a template
TemplateGroups(acc, groups, t) ==
  IF ~groups.present \/ Len(groups.list) = 0
  THEN Warn(acc, "No template groups defined", t, 0)
  ELSE _validate_groups(acc, groups, t)

\* runs the sub-collection check only when its parent element is present
\* and no exception is propagating
IfPresent(acc, coll, checked) ==
  IF acc.exc # "" \/ ~coll.present THEN acc ELSE checked

_validate_template(acc, template, t) ==
  LET a1 == IF ~template.name.present
            THEN Err(acc, "Missing template name", t, 0) ELSE acc
      a2 == TemplateUuid(a1, template.uuid, t)
      a3 == IF a2.exc # "" THEN a2 ELSE TemplateGroups(a2, template.groups, t)
      a4 == IfPresent(a3, template.items,
                      _validate_items(a3, template.items.list, t))
      a5 == IfPresent(a4, template.discovery_rules,
                      _validate_discovery_rules(a4, template.discovery_rules.list, t))
      a6 == IfPresent(a5, template.triggers,
                      _validate_triggers(a5, template.triggers.list, t))
  IN IfPresent(a6, template.macros,
               _validate_macros(a6, template.macros.list, t))

RECURSIVE TemplatesFrom(_, _, _)
TemplatesFrom(acc, template_list, t) ==
  IF t > Len(template_list) \/ acc.exc # "" THEN acc
  ELSE TemplatesFrom(_validate_template(acc, template_list[t], t),
                     template_list, t + 1)

_validate_templates(acc, doc) ==
  IF ~doc.templates.present
  THEN Err(acc, "Missing <templates> element", 0, 0)
  ELSE IF Len(doc.templates.list) = 0
  THEN Warn(acc, "No templates found in file", 0, 0)
  ELSE TemplatesFrom(Info(acc, "Found template(s)"), doc.templates.list, 1)

\* the version threshold off by one
VersionThresholdSix == 7 - 1

VersionThreshold == 7

_validate_version(acc, doc) ==
  IF ~doc.version.present
  THEN Err(acc, "Missing <version> element", 0, 0)
  ELSE LET a1 == Info(acc, "Zabbix version")
       IN IF ~doc.version.hasText
          THEN Raise(a1, "AttributeError")            \* None.split('.')
          ELSE LET major_version == ParseFloat(SplitDotFirst(doc.version.text))
               IN IF ~major_version.ok
                  THEN Warn(a1, "Could not parse version", 0, 0)
                  ELSE IF FloatLess(major_version, VersionThreshold)
                  THEN Warn(a1, "Zabbix version is older than 7.0", 0, 0)
                  ELSE a1

_validate_root_structure(acc, doc) ==
  IF doc.root # "zabbix_export"
  THEN Err(acc, "Root element must be 'zabbix_export'", 0, 0)
  ELSE Info(acc, "Root element is 'zabbix_export'")

\* returns [ok, acc]: ok is the return value of _parse_xml
_parse_xml(acc, doc) ==
  IF doc.parse = "ok"
  THEN [ok |-> TRUE, acc |-> Info(acc, "XML parsing successful")]
  ELSE IF doc.parse = "ParseError"
  THEN [ok |-> FALSE, acc |-> Err(acc, "XML parsing error", 0, 0)]
  ELSE [ok |-> FALSE, acc |-> Err(acc, "Error reading file", 0, 0)]

\* validate() returning PASS only for a file without warnings either
ValidateResultNoWarnings(acc) == Len(acc.errors) = 0 /\ Len(acc.warnings) = 0

\* line 47: the value validate() returns after the checks
ValidateResult(acc) == Len(acc.errors) = 0

\* validate() on one document: the buckets it leaves, whether it returned
\* (no exception) and the verdict it returned
validate(doc) ==
  LET r  == _parse_xml(NewAcc, doc)
      a1 == _validate_root_structure(r.acc, doc)
      a2 == _validate_version(a1, doc)
      a3 == IF a2.exc # "" THEN a2 ELSE _validate_templates(a2, doc)
  IN IF ~r.ok
     THEN [acc |-> r.acc, returned |-> TRUE, passed |-> FALSE]
     ELSE [acc |-> a3, returned |-> a3.exc = "",
           passed |-> a3.exc = "" /\ ValidateResult(a3)]

(***************************************************************************)
(* Bounds and the inputs drawn within them                                 *)
(***************************************************************************)
MaxVerLen == 3

MaxItems == 3

MaxRules == 2

MaxTriggers == 2

MaxMacros == 2

MaxTemplates == 2

MaxFiles == 2

\* the sequences over S of length lo..hi
SeqsOf(S, lo, hi) == UNION {[1..n -> S] : n \in lo..hi}

VersionChars == {Ord(c) : c \in {"0", "1", "6", "7", ".", "x"}}

\* version texts float() reads in its other forms: trailing line feed,
\* exponent, underscore, inf and nan, blanks and digits beyond ASCII
OtherVersionTexts ==
  {Str(<<"7", "\n">>),
   Str(<<"6", "\n", ".", "0">>),
   Str(<<"1", "e", "1">>),
   Str(<<"6", "e", "0", ".", "5">>),
   Str(<<"7", "0", "e", "-", "1">>),
   Str(<<"i", "n", "f">>),
   Str(<<"-", "i", "n", "f">>),
   Str(<<"n", "a", "n">>),
   Str(<<"6", "_", "0">>),
   Str(<<"6", "_">>),
   <<55, 160>>,          \* "7", no-break space
   <<8195, 54>>,         \* em space, "6"
   <<1639>>}             \* Arabic-Indic digit seven

VersionTexts == SeqsOf(VersionChars, 1, MaxVerLen) \cup OtherVersionTexts

T_7_0 == Str(<<"7", ".", "0">>)

T_6_0 == Str(<<"6", ".", "0">>)

T_n == Str(<<"n">>)

UuidDashedText == Str(<<"5", "5", "0", "e", "8", "4", "0", "0", "-", "e", "2", "9", "b", "-", "4", "1", "d", "4", "-", "a", "7", "1", "6", "-", "4", "4", "6", "6", "5", "5", "4", "4", "0", "0", "0", "0">>)

UuidNoDashText == Str(<<"5", "5", "0", "e", "8", "4", "0", "0", "e", "2", "9", "b", "4", "1", "d", "4", "a", "7", "1", "6", "4", "4", "6", "6", "5", "5", "4", "4", "0", "0", "0", "0">>)

UuidShortText == Str(<<"5", "5", "0", "e", "8", "4", "0", "0", "-", "e", "2", "9", "b", "-", "4", "1", "d", "4", "-", "a", "7", "1", "6">>)

UuidUpperText == Str(<<"5", "5", "0", "E", "8", "4", "0", "0", "-", "E", "2", "9", "B", "-", "4", "1", "D", "4", "-", "A", "7", "1", "6", "-", "4", "4", "6", "6", "5", "5", "4", "4", "0", "0", "0", "0">>)

UuidElems ==
  {NoElem, EmptyElem, Elem(UuidDashedText), Elem(UuidNoDashText),
   Elem(UuidShortText), Elem(UuidUpperText), Elem(UuidNoDashText \o Str(<<"\n">>))}

Group(name) == [name |-> name]

GroupColls ==
  {NoColl, Coll(<<>>), Coll(<<Group(Elem(T_n))>>), Coll(<<Group(NoElem)>>),
   Coll(<<Group(Elem(T_n)), Group(NoElem)>>), Coll(<<Group(EmptyElem)>>)}

Item(name, key, value_type) ==
  [name |-> name, key |-> key, value_type |-> value_type]

T_a == Str(<<"a">>)

T_b == Str(<<"b">>)

T_a_b == Str(<<"a", " ", "b">>)

T_0 == Str(<<"0">>)

ItemVariants ==
  {Item(Elem(T_n), k, Elem(T_0)) :
     k \in {NoElem, EmptyElem, Elem(T_a), Elem(T_b), Elem(T_a_b)}}
  \cup
  {Item(Elem(T_n), Elem(T_a), v) :
     v \in {NoElem, EmptyElem, Elem(Str(<<"7">>)), Elem(Str(<<"1", "5">>)),
            Elem(Str(<<"3", "\n">>)), Elem(Str(<<"1", "_", "5">>)),
            Elem(<<1635, 133>>),      \* Arabic-Indic digit three, next line
            Elem(Str(<<"F", "L", "O", "A", "T">>)), Elem(Str(<<"B", "O", "G", "U", "S">>))}}
  \cup {Item(NoElem, Elem(T_b), Elem(T_0))}

Rule(name, key, protos) ==
  [name |-> name, key |-> key, item_prototypes |-> protos]

NoProtos == [present |-> FALSE, count |-> 0]

Protos(n) == [present |-> TRUE, count |-> n]

RuleVariants ==
  {Rule(Elem(T_n), k, Protos(1)) : k \in {NoElem, EmptyElem, Elem(T_a), Elem(T_b)}}
  \cup {Rule(Elem(T_n), Elem(T_a), NoProtos), Rule(Elem(T_n), Elem(T_a), Protos(0)),
        Rule(NoElem, Elem(T_b), NoProtos)}

Trigger(name, expression, priority) ==
  [name |-> name, expression |-> expression, priority |-> priority]

ExprOpenParen == Str(<<"(", "A", "=", "1">>)

ExprOldStyle == Str(<<"{", "A", ":", "B", ".", "f", "u", "n", "c", "(", ")", "}">>)

ExprNewStyle == Str(<<"f", "(", "/", "h", "/", "k", ")", ">", "1">>)

ExprOldStyleOpenParen == Str(<<"{", "A", ":", "B", ".", "f", "(", ")", "}", "(">>)

ExprOpenBrace == Str(<<"{", "A", ":", "B", ".", "f", "(", ")">>)

ExprBothOpen == Str(<<"(", "{">>)

ExprSwapped == Str(<<"}", "{", ")", "(">>)

ExpressionElems ==
  {NoElem, EmptyElem, Elem(ExprOpenParen), Elem(ExprOldStyle), Elem(ExprNewStyle),
   Elem(ExprOldStyleOpenParen), Elem(ExprOpenBrace), Elem(ExprBothOpen),
   Elem(ExprSwapped)}

T_3 == Str(<<"3">>)

PriorityElems ==
  {NoElem, EmptyElem, Elem(T_3), Elem(Str(<<"9">>)), Elem(Str(<<"-", "1">>)), Elem(Str(<<"3", "\n">>)),
   Elem(Str(<<"1", "_", "0">>)),
   Elem(<<160, 65305>>),              \* no-break space, fullwidth digit nine
   Elem(Str(<<"H", "I", "G", "H">>)), Elem(Str(<<"B", "O", "G", "U", "S">>))}

TriggerVariants ==
  {Trigger(Elem(T_n), e, Elem(T_3)) : e \in ExpressionElems}
  \cup {Trigger(Elem(T_n), Elem(ExprNewStyle), q) : q \in PriorityElems}
  \cup {Trigger(NoElem, Elem(ExprOpenParen), NoElem)}

Macro(macro, value) == [macro |-> macro, value |-> value]

MacroNameElems ==
  {NoElem, EmptyElem, Elem(Str(<<"{", "$", "M", "Y", "_", "M", "A", "C", "R", "O", "}">>)), Elem(Str(<<"{", "$", "m", "y", "_", "m", "a", "c", "r", "o", "}">>)),
   Elem(Str(<<"{", "M", "Y", "_", "M", "A", "C", "R", "O", "}">>)), Elem(Str(<<"{", "$", "M", "Y", "-", "M", "A", "C", "R", "O", "}">>)), Elem(Str(<<"{", "$", "}">>))}

MacroVariants ==
  {Macro(m, Elem(T_a)) : m \in MacroNameElems}
  \cup {Macro(m, NoElem) : m \in {NoElem, EmptyElem, Elem(Str(<<"{", "$", "M", "Y", "_", "M", "A", "C", "R", "O", "}">>))}}

Template(name, uuid, groups, items, rules, triggers, macros) ==
  [name |-> name, uuid |-> uuid, groups |-> groups, items |-> items,
   discovery_rules |-> rules, triggers |-> triggers, macros |-> macros]

\* a template with nothing but (possibly) a name, a uuid and groups
HeaderTemplates ==
  {Template(n, u, g, NoColl, NoColl, NoColl, NoColl) :
     n \in {NoElem, EmptyElem, Elem(T_n)}, u \in UuidElems, g \in GroupColls}

\* a named template with one sub-collection
ItemTemplates ==
  {Template(Elem(T_n), NoElem, NoColl, Coll(l), NoColl, NoColl, NoColl) :
     l \in SeqsOf(ItemVariants, 0, MaxItems)}

RuleTemplates ==
  {Template(Elem(T_n), NoElem, NoColl, NoColl, Coll(l), NoColl, NoColl) :
     l \in SeqsOf(RuleVariants, 0, MaxRules)}

TriggerTemplates ==
  {Template(Elem(T_n), NoElem, NoColl, NoColl, NoColl, Coll(l), NoColl) :
     l \in SeqsOf(TriggerVariants, 0, MaxTriggers)}

MacroTemplates ==
  {Template(Elem(T_n), NoElem, NoColl, NoColl, NoColl, NoColl, Coll(l)) :
     l \in SeqsOf(MacroVariants, 0, MaxMacros)}

\* templates with every sub-collection, for documents of several templates
MixedTemplates ==
  {Template(Elem(T_n), u, Coll(<<Group(Elem(T_n))>>), Coll(<<i>>), Coll(<<r>>),
            Coll(<<g>>), Coll(<<m>>)) :
     u \in {NoElem, EmptyElem},
     i \in {Item(Elem(T_n), k, Elem(T_0)) : k \in {EmptyElem, Elem(T_a), Elem(T_b)}},
     r \in {Rule(Elem(T_n), Elem(T_a), NoProtos)},
     g \in {Trigger(Elem(T_n), e, Elem(T_3)) : e \in {EmptyElem, Elem(ExprNewStyle)}},
     m \in {Macro(Elem(T_a), NoElem)}}

Doc(root, version, templates) ==
  [parse |-> "ok", root |-> root, version |-> version, templates |-> templates]

\* a file ET.parse rejects (ParseError) or cannot read (any other exception)
Unparsed(kind) ==
  [parse |-> kind, root |-> "", version |-> NoElem, templates |-> NoColl]

MinimalTemplate == Template(Elem(T_n), NoElem, NoColl, NoColl, NoColl, NoColl, NoColl)

VersionDocs ==
  {Doc(r, v, t) :
     r \in {"zabbix_export", "templates"},
     v \in {NoElem, EmptyElem} \cup {Elem(x) : x \in VersionTexts},
     t \in {NoColl, Coll(<<>>), Coll(<<MinimalTemplate>>)}}

TemplateDocs ==
  {Doc("zabbix_export", Elem(T_7_0), Coll(<<t>>)) :
     t \in HeaderTemplates \cup ItemTemplates \cup RuleTemplates
           \cup TriggerTemplates \cup MacroTemplates}

MultiTemplateDocs ==
  {Doc("zabbix_export", Elem(T_7_0), Coll(l)) :
     l \in SeqsOf(MixedTemplates, 2, MaxTemplates)}

Docs ==
  {Unparsed("ParseError"), Unparsed("OSError")}
  \cup VersionDocs \cup TemplateDocs \cup MultiTemplateDocs

\* file contents of the batch scenarios: unparseable, passing, failing with
\* a verdict, and one whose version element is empty
BatchDocs ==
  {Unparsed("ParseError"),
   Doc("zabbix_export", Elem(T_6_0), Coll(<<MinimalTemplate>>)),
   Doc("zabbix_export", Elem(T_7_0), NoColl),
   Doc("zabbix_export", EmptyElem, Coll(<<>>))}

\* file names by the glob patterns of lines 437-440 they match
XmlNames == {"zabbix_a.xml", "template_b.xml", "template_zabbix.xml"}

OtherNames == {"zabbix_c.yaml", "zabbix_d.yml", "notes.xml"}

MatchesZabbixXml(name) == name \in {"zabbix_a.xml", "template_zabbix.xml"}

MatchesTemplateXml(name) == name \in {"template_b.xml", "template_zabbix.xml"}

MatchesZabbixYaml(name) == name = "zabbix_c.yaml"

MatchesZabbixYml(name) == name = "zabbix_d.yml"

File(name, doc) == [name |-> name, doc |-> doc]

BatchFiles ==
  {File(n, d) : n \in XmlNames, d \in BatchDocs}
  \cup {File(n, Unparsed("ParseError")) : n \in OtherNames}

(***************************************************************************)
(* State                                                                   *)
(***************************************************************************)
VARIABLES
  argv,        \* [mode, path]: no argument, "--all", or a path (index into tree, 0 = no such file)
  tree,        \* the files on disk: a sequence of [name, doc]
  files,       \* main's list of files to validate (indices into tree)
  pc,          \* position of the program
  cur,         \* position of the for loop of line 472 in files
  errors,      \* validator.errors
  warnings,    \* validator.warnings
  info,        \* validator.info
  passed,      \* the value validate() returned
  all_passed,  \* main's all_passed
  verdicts,    \* the values validate() has returned so far, in order
  exc,         \* the exception that ended the process ("" if none)
  exitCode     \* the process exit status (-1 while running)

vars == <<argv, tree, files, pc, cur, errors, warnings, info, passed,
          all_passed, verdicts, exc, exitCode>>

\* the validator's buckets as an accumulator
Acc == [errors |-> errors, warnings |-> warnings, info |-> info, exc |-> ""]

\* the document of the file being validated
CurDoc == tree[files[cur]].doc

InitRest ==
  /\ files = <<>>
  /\ pc = "main"
  /\ cur = 1
  /\ errors = <<>>
  /\ warnings = <<>>
  /\ info = <<>>
  /\ passed = FALSE
  /\ all_passed = TRUE
  /\ verdicts = <<>>
  /\ exc = ""
  /\ exitCode = -1

\* one named file holding any of the documents
InitSingle ==
  /\ \E d \in Docs : tree = <<File("zabbix_a.xml", d)>>
  /\ argv = [mode |-> "path", path |-> 1]
  /\ InitRest

\* a directory of up to MaxFiles files and any command line
InitBatch ==
  /\ tree \in SeqsOf(BatchFiles, 0, MaxFiles)
  /\ \/ argv = [mode |-> "none", path |-> 0]
     \/ argv = [mode |-> "all", path |-> 0]
     \/ \E p \in 0..Len(tree) : argv = [mode |-> "path", path |-> p]
  /\ InitRest

Init == InitSingle \/ InitBatch

(***************************************************************************)
(* main()                                                                  *)
(***************************************************************************)
\* the paths of the directory tree, in directory order
Paths == [i \in 1..Len(tree) |-> i]

xml_files ==
  SelectSeq(Paths, LAMBDA i : MatchesZabbixXml(tree[i].name))
    \o SelectSeq(Paths, LAMBDA i : MatchesTemplateXml(tree[i].name))

yaml_files ==
  SelectSeq(Paths, LAMBDA i : MatchesZabbixYaml(tree[i].name))
    \o SelectSeq(Paths, LAMBDA i : MatchesZabbixYml(tree[i].name))

Range(s) == {s[i] : i \in 1..Len(s)}

\* list(set(l)): the distinct elements of l in some order
Orderings(l) ==
  {o \in [1..Cardinality(Range(l)) -> Range(l)] : Range(o) = Range(l)}

Exited(code) ==
  /\ pc' = "exited"
  /\ exitCode' = code

\* batch mode failing whenever there is no XML file
BatchEarlyExitNoXmlFails(fs, ys) ==
  IF fs = <<>> THEN 1 ELSE -1

\* lines 454-461: the two early exits of batch mode, or none (-1)
BatchEarlyExit(fs, ys) ==
  IF fs = <<>> /\ ys = <<>> THEN 1
  ELSE IF fs = <<>> THEN 0
  ELSE -1

\* lines 429-471: resolve the files to validate, or exit
Main ==
  /\ pc = "main"
  /\ IF argv.mode = "none"
     THEN /\ Exited(1)
          /\ UNCHANGED files
     ELSE IF argv.mode = "all"
     THEN \E fs \in Orderings(xml_files) :
            /\ files' = fs
            /\ IF BatchEarlyExit(fs, yaml_files) # -1
               THEN Exited(BatchEarlyExit(fs, yaml_files))
               ELSE pc' = "loop" /\ UNCHANGED exitCode
     ELSE IF argv.path = 0
     THEN /\ Exited(1)
          /\ UNCHANGED files
     ELSE /\ files' = <<argv.path>>
          /\ pc' = "loop"
          /\ UNCHANGED exitCode
  /\ all_passed' = TRUE
  /\ UNCHANGED <<argv, tree, cur, errors, warnings, info, passed, verdicts, exc>>

\* lines 472-473 and 21-27: the loop takes the next file and constructs its validator
NextFile ==
  /\ pc = "loop"
  /\ cur <= Len(files)
  /\ errors' = NewAcc.errors
  /\ warnings' = NewAcc.warnings
  /\ info' = NewAcc.info
  /\ pc' = "parse"
  /\ UNCHANGED <<argv, tree, files, cur, passed, all_passed, verdicts, exc, exitCode>>

SetBuckets(a) ==
  /\ errors' = a.errors
  /\ warnings' = a.warnings
  /\ info' = a.info

\* an exception nothing catches leaves validate() and main(): the
\* interpreter prints the traceback and exits with status 1
Continue(a, next) ==
  IF a.exc # ""
  THEN /\ exc' = a.exc
       /\ Exited(1)
  ELSE /\ pc' = next
       /\ UNCHANGED <<exc, exitCode>>

\* lines 35-37: validate() parses and returns False on failure
ParseXml ==
  /\ pc = "parse"
  /\ LET r == _parse_xml(Acc, CurDoc)
     IN /\ SetBuckets(r.acc)
        /\ IF r.ok
           THEN pc' = "root" /\ UNCHANGED passed
           ELSE pc' = "returned" /\ passed' = FALSE
  /\ UNCHANGED <<argv, tree, files, cur, all_passed, verdicts, exc, exitCode>>

\* line 40
ValidateRootStructure ==
  /\ pc = "root"
  /\ LET a == _validate_root_structure(Acc, CurDoc)
     IN SetBuckets(a) /\ Continue(a, "version")
  /\ UNCHANGED <<argv, tree, files, cur, passed, all_passed, verdicts>>

\* line 41
ValidateVersion ==
  /\ pc = "version"
  /\ LET a == _validate_version(Acc, CurDoc)
     IN SetBuckets(a) /\ Continue(a, "templates")
  /\ UNCHANGED <<argv, tree, files, cur, passed, all_passed, verdicts>>

\* line 42
ValidateTemplates ==
  /\ pc = "templates"
  /\ LET a == _validate_templates(Acc, CurDoc)
     IN SetBuckets(a) /\ Continue(a, "results")
  /\ UNCHANGED <<argv, tree, files, cur, passed, all_passed, verdicts>>

\* lines 44-47: print the results and return the verdict
Return ==
  /\ pc = "results"
  /\ passed' = ValidateResult(Acc)
  /\ pc' = "returned"
  /\ UNCHANGED <<argv, tree, files, cur, errors, warnings, info, all_passed,
                 verdicts, exc, exitCode>>

\* lines 474-476: main takes the verdict
Aggregate ==
  /\ pc = "returned"
  /\ all_passed' = (IF ~passed THEN FALSE ELSE all_passed)
  /\ verdicts' = Append(verdicts, passed)
  /\ cur' = cur + 1
  /\ pc' = "loop"
  /\ UNCHANGED <<argv, tree, files, errors, warnings, info, passed, exc, exitCode>>

\* line 479
ExitCodeOf(ap) == IF ap THEN 0 ELSE 1

Exit ==
  /\ pc = "loop"
  /\ cur > Len(files)
  /\ Exited(ExitCodeOf(all_passed))
  /\ UNCHANGED <<argv, tree, files, cur, errors, warnings, info, passed,
                 all_passed, verdicts, exc>>

Next ==
  \/ Main
  \/ NextFile
  \/ ParseXml
  \/ ValidateRootStructure
  \/ ValidateVersion
  \/ ValidateTemplates
  \/ Return
  \/ Aggregate
  \/ Exit

Spec == Init /\ [][Next]_vars

TypeOK ==
  /\ pc \in {"main", "loop", "parse", "root", "version", "templates",
             "results", "returned", "exited"}
  /\ exitCode \in {-1, 0, 1}
  /\ (pc = "exited") = (exitCode # -1)
  /\ cur \in 1..(Len(files) + 1)

(***************************************************************************)
(* Properties                                                              *)
(***************************************************************************)
CountMsg(s, m) == Cardinality({i \in 1..Len(s) : s[i].msg = m})

\* a validator has been constructed for files[cur]
InFile == pc \notin {"main", "loop"} /\ cur <= Len(files)

\* the validation of files[cur] is over: validate() returned or raised
Ended == InFile /\ (pc = "returned" \/ (pc = "exited" /\ exc # ""))

\* each check leaves a finding as its first effect
RootRan ==
  CountMsg(errors, "Root element must be 'zabbix_export'")
    + CountMsg(info, "Root element is 'zabbix_export'") > 0

VersionRan ==
  CountMsg(errors, "Missing <version> element") + CountMsg(info, "Zabbix version") > 0

TemplatesRan ==
  CountMsg(errors, "Missing <templates> element")
    + CountMsg(warnings, "No templates found in file")
    + CountMsg(info, "Found template(s)") > 0

\* no rule of _validate_template has recorded anything
NoTemplateFinding ==
  /\ \A i \in 1..Len(errors) : errors[i].tpl = 0
  /\ \A i \in 1..Len(warnings) : warnings[i].tpl = 0
  /\ CountMsg(info, "Found template(s)") = 0

\* C1: whenever validate() has returned, for a parseable file or not, the
\* verdict is PASS iff the Error bucket is empty; Warnings and Info do not
\* matter.
C1_VerdictIffNoErrors ==
  pc = "returned" => (passed <=> Len(errors) = 0)

C1_Witness ==
  /\ pc = "returned"
  /\ passed
  /\ Len(warnings) > 0
  /\ Len(info) > 0

\* C2: with a non-empty list of resolved files, when the process has exited
\* every file has been validated exactly once, in order, and the exit code
\* is 0 iff every validation returned PASS.
C2_OneValidationPerFile ==
  (pc = "exited" /\ files # <<>>) =>
     /\ Len(verdicts) = Len(files)
     /\ (exitCode = 0 <=> \A i \in 1..Len(verdicts) : verdicts[i])

\* C3: when the file cannot be parsed, validate() records exactly one Error,
\* no Warning, no Info, runs none of the three checks and returns FAIL; and
\* when the file can be parsed none of the three checks is skipped.
C3_OnlyParseFailureSkips ==
  Ended =>
     /\ CurDoc.parse # "ok" =>
          /\ Len(errors) = 1
          /\ warnings = <<>>
          /\ info = <<>>
          /\ ~RootRan /\ ~VersionRan /\ ~TemplatesRan
          /\ pc = "returned" /\ ~passed
     /\ CurDoc.parse = "ok" => (RootRan /\ VersionRan /\ TemplatesRan)

\* C4: a parsed document whose root tag is not 'zabbix_export' gets exactly
\* one root-structure Error, the version and templates checks still run on
\* it, and validation ends with the verdict FAIL rather than aborting.
C4_WrongRootStillYieldsVerdict ==
  (Ended /\ CurDoc.parse = "ok" /\ CurDoc.root # "zabbix_export") =>
     /\ CountMsg(errors, "Root element must be 'zabbix_export'") = 1
     /\ VersionRan
     /\ TemplatesRan
     /\ pc = "returned"
     /\ ~passed

\* C5: once a file's validation is over, every item that has a key carries
\* a 'Duplicate item key' Error iff an earlier item of the same template's
\* item collection has the same key text (so k occurrences give k-1 Errors,
\* and the same key in another template is not flagged).
C5_DuplicateKeyIffEarlierSameKey ==
  (Ended /\ CurDoc.parse = "ok") =>
     \A t \in 1..Len(CurDoc.templates.list) :
       LET items == CurDoc.templates.list[t].items.list
       IN \A i \in 1..Len(items) :
            items[i].key.present =>
              ((\E e \in 1..Len(errors) :
                  errors[e] = Finding("Duplicate item key", t, i))
               <=>
               (\E j \in 1..(i - 1) :
                  /\ items[j].key.present
                  /\ TextOf(items[j].key) = TextOf(items[i].key)))

\* the version text is None or its part before the first '.' is no number
VersionUnparseable(v) ==
  ~v.hasText \/ ~ParseFloat(SplitDotFirst(v.text)).ok

\* C6: when the version element exists the version check records no Error and
\* does not stop validation: exactly one 'could not parse' Warning if the
\* text is absent or not a number, exactly one 'older than 7.0' Warning if
\* it is a number below 7, no Warning otherwise, and the templates check
\* runs afterwards.
C6_VersionWarnsOnly ==
  (Ended /\ CurDoc.parse = "ok" /\ CurDoc.version.present) =>
     LET v == CurDoc.version
         below == ~VersionUnparseable(v)
                  /\ FloatLess(ParseFloat(SplitDotFirst(v.text)), 7)
     IN /\ CountMsg(errors, "Missing <version> element") = 0
        /\ CountMsg(warnings, "Could not parse version")
             = (IF VersionUnparseable(v) THEN 1 ELSE 0)
        /\ CountMsg(warnings, "Zabbix version is older than 7.0")
             = (IF below THEN 1 ELSE 0)
        /\ TemplatesRan

\* the XML and YAML files batch discovery finds, as sets of paths
XmlFound ==
  {i \in 1..Len(tree) :
     MatchesZabbixXml(tree[i].name) \/ MatchesTemplateXml(tree[i].name)}

YamlFound ==
  {i \in 1..Len(tree) :
     MatchesZabbixYaml(tree[i].name) \/ MatchesZabbixYml(tree[i].name)}

NoValidationRun ==
  verdicts = <<>> /\ errors = <<>> /\ warnings = <<>> /\ info = <<>>

\* C7: in batch mode the process exits 1 without validating anything when no
\* XML and no YAML file is found, exits 0 without validating anything when
\* only YAML files are found, and otherwise exits 0 iff every distinct XML
\* file passes, whatever YAML files there are.
C7_BatchExitCode ==
  (pc = "exited" /\ argv.mode = "all") =>
     /\ (XmlFound = {} /\ YamlFound = {}) => (exitCode = 1 /\ NoValidationRun)
     /\ (XmlFound = {} /\ YamlFound # {}) => (exitCode = 0 /\ NoValidationRun)
     /\ XmlFound # {} =>
          /\ Range(files) = XmlFound
          /\ Len(files) = Cardinality(XmlFound)
          /\ (exitCode = 0 <=> \A i \in XmlFound : validate(tree[i].doc).passed)

C7_Witness ==
  /\ pc = "exited"
  /\ argv.mode = "all"
  /\ XmlFound # {}
  /\ YamlFound # {}
  /\ Len(xml_files) > Cardinality(XmlFound)
  /\ exitCode = 0

\* the document handed to the validator in single-file mode
NamedDoc == tree[files[1]].doc

\* what C8 states of validate() for a document without a templates element
OneErrorAndFail ==
  /\ Len(errors) = 1
  /\ errors[1].msg = "Missing <templates> element"
  /\ NoTemplateFinding
  /\ ~passed

NoEntries(coll) == ~coll.present \/ coll.list = <<>>

\* the document of C9
MinimalDocument(d) ==
  /\ d.parse = "ok"
  /\ d.root = "zabbix_export"
  /\ d.version = Elem(T_6_0)
  /\ d.templates.present
  /\ Len(d.templates.list) = 1
  /\ LET t == d.templates.list[1]
     IN /\ t.name.present
        /\ ~t.uuid.present
        /\ NoEntries(t.groups)
        /\ NoEntries(t.items)
        /\ NoEntries(t.discovery_rules)
        /\ NoEntries(t.triggers)
        /\ NoEntries(t.macros)

\* C9: validating a single file holding the minimal document (root
\* zabbix_export, version 6.0, one named template without uuid, groups or
\* entries) records exactly the version-below-7.0, missing-UUID and
\* no-groups Warnings and no Error, returns PASS, and the process exits 0.
C9_MinimalDocumentPasses ==
  (/\ pc = "exited"
   /\ argv.mode = "path"
   /\ files # <<>>
   /\ MinimalDocument(NamedDoc))
     => /\ errors = <<>>
        /\ Len(warnings) = 3
        /\ CountMsg(warnings, "Zabbix version is older than 7.0") = 1
        /\ CountMsg(warnings, "Missing UUID") = 1
        /\ CountMsg(warnings, "No template groups defined") = 1
        /\ verdicts = <<TRUE>>
        /\ exc = ""
        /\ exitCode = 0

C9_Witness ==
  /\ pc = "exited"
  /\ argv.mode = "path"
  /\ files # <<>>
  /\ MinimalDocument(NamedDoc)
  /\ exitCode = 0

\* C10: once a file's validation is over, every trigger with an expression
\* element carries an unmatched-parentheses Error iff its '(' and ')' counts
\* differ, an unmatched-braces Error iff its '{' and '}' counts differ, a
\* legacy-syntax Warning iff the old-style pattern matches, a
\* duplicate-expression Warning iff an earlier trigger of the same
\* collection has the same expression text, and exactly one empty-expression
\* Error if its text is empty.
C10_ExpressionChecksIndependent ==
  (Ended /\ CurDoc.parse = "ok") =>
     \A t \in 1..Len(CurDoc.templates.list) :
       LET triggers == CurDoc.templates.list[t].triggers.list
           Has(s, m, i) == \E e \in 1..Len(s) : s[e] = Finding(m, t, i)
           Times(s, m, i) == Cardinality({e \in 1..Len(s) : s[e] = Finding(m, t, i)})
       IN \A i \in 1..Len(triggers) :
            LET x == triggers[i].expression
            IN x.present =>
                 /\ Has(errors, "Unmatched parentheses in trigger expression", i)
                      <=> (Count(x.text, LeftParen) # Count(x.text, RightParen))
                 /\ Has(errors, "Unmatched braces in trigger expression", i)
                      <=> (Count(x.text, LeftBrace) # Count(x.text, RightBrace))
                 /\ Has(warnings, "Possible old-style trigger expression detected", i)
                      <=> OldStyleMatches(x.text)
                 /\ Has(warnings, "Duplicate trigger expression", i)
                      <=> (\E j \in 1..(i - 1) :
                             /\ triggers[j].expression.present
                             /\ TextOf(triggers[j].expression) = TextOf(x))
                 /\ Times(errors, "Empty trigger expression", i)
                      = (IF ~x.hasText THEN 1 ELSE 0)

====
